---- MODULE Spec2Model ----
(***************************************************************************)
(* Model of the Google Drive addon actions: list_documents,                *)
(* delete_document and download_document.  Each call is a short            *)
(* sequential run: input validation, secret lookup, one or two HTTP        *)
(* requests, and the construction of the ActionResponse envelope.  The     *)
(* upstream (Drive API) is the environment: every request is answered by   *)
(* a nondeterministically chosen response or transport failure.  The       *)
(* actions are called directly with a configuration, or through a          *)
(* GoogleDriveRoomsAddon, which hands them the configuration it holds.     *)
(***************************************************************************)
EXTENDS Integers, Sequences, FiniteSets, TLC

VARIABLES
    pc,            \* position of the call: "idle", a step name, or "done"
    action,        \* "none", "list", "delete" or "download"
    config,        \* the configuration object handed to the action
    args,          \* the call's parameters
    secretLookups, \* number of config.get_required_secrets() calls of this call
    requests,      \* the HTTP requests this call has issued, in order
    responses,     \* the upstream outcome of each issued request, in order
    locals,        \* download_document's metadata locals
    result,        \* what the call gave back: an envelope or an escaped exception
    caller,        \* who made the call: "none", "direct" or "addon"
    addonConfig,   \* GoogleDriveRoomsAddon.config
    load           \* the loadAddonConfig call that just ended, if any

vars == <<pc, action, config, args, secretLookups, requests, responses, locals, result,
          caller, addonConfig, load>>

-----------------------------------------------------------------------------
(* Bounds of the model *)

\* longest `files` list an upstream list response carries
MaxFiles == 2

\* longest byte payload an upstream content response carries
MaxContentLen == 2

-----------------------------------------------------------------------------
(* Python values.  A value carries its type tag, so that attribute access  *)
(* on the wrong type (dict.get on a str, int() of a word) can raise as it  *)
(* does in the interpreter.                                                *)

None == [t |-> "none"]
Str(s) == [t |-> "str", v |-> s]
Num(n) == [t |-> "int", v |-> n]
List(s) == [t |-> "list", v |-> s]
Bool(b) == [t |-> "bool", v |-> b]
Dict(r) == [t |-> "dict", v |-> r]
EmptyDict == [k \in {} |-> None]

\* bool(v): Python truthiness
Truthy(v) ==
    CASE v.t = "none" -> FALSE
      [] v.t = "str"  -> v.v # ""
      [] v.t = "int"  -> v.v # 0
      [] v.t = "bool" -> v.v
      [] v.t = "list" -> Len(v.v) # 0
      [] v.t = "dict" -> DOMAIN v.v # {}

\* d.get(k, default) on the mapping of a dict value
Get(d, k, default) == IF k \in DOMAIN d THEN d[k] ELSE default

\* str.startswith
StartsWith(s, prefix) ==
    /\ Len(s) >= Len(prefix)
    /\ SubSeq(s, 1, Len(prefix)) = prefix

\* s[:n]
Truncate(s, n) == IF Len(s) <= n THEN s ELSE SubSeq(s, 1, n)

Digits == {"0", "1", "2", "3", "4", "5", "6", "7", "8", "9"}

DigitValue(c) ==
    CASE c = "0" -> 0 [] c = "1" -> 1 [] c = "2" -> 2 [] c = "3" -> 3
      [] c = "4" -> 4 [] c = "5" -> 5 [] c = "6" -> 6 [] c = "7" -> 7
      [] c = "8" -> 8 [] c = "9" -> 9

IsDecimal(s) ==
    /\ Len(s) > 0
    /\ \A i \in 1..Len(s) : SubSeq(s, i, i) \in Digits

RECURSIVE DecimalValue(_)
DecimalValue(s) ==
    IF Len(s) = 0 THEN 0
    ELSE 10 * DecimalValue(SubSeq(s, 1, Len(s) - 1)) + DigitValue(SubSeq(s, Len(s), Len(s)))

\* int(v): [ok |-> TRUE, v |-> n], or the exception class it raises
PyInt(v) ==
    CASE v.t = "int" -> [ok |-> TRUE, v |-> v.v]
      [] v.t = "str" -> IF IsDecimal(v.v)
                        THEN [ok |-> TRUE, v |-> DecimalValue(v.v)]
                        ELSE [ok |-> FALSE, cls |-> "ValueError"]
      [] OTHER       -> [ok |-> FALSE, cls |-> "TypeError"]

-----------------------------------------------------------------------------
(* The response envelope *)

TokensSchema(step, total) == [stepAmount |-> step, totalCurrentAmount |-> total]

ActionResponse(data, tokens, message, code) ==
    [kind |-> "envelope", data |-> data, tokens |-> tokens,
     message |-> message, code |-> code]

\* an exception that no handler of the action catches
Escapes(cls) == [kind |-> "exception", cls |-> cls]

NoResult == [kind |-> "none"]

ZeroTokens == TokensSchema(0, 0)

-----------------------------------------------------------------------------
(* Configuration.  The addon hands its `config` attribute to the actions:  *)
(* the plain dict {} it starts with, or a CustomAddonConfig object.  The   *)
(* actions read an object's `secrets` and, through getattr with a default, *)
(* its optional tunables (kept in `attrs`).                                *)

TokenKey == "google_drive_access_token"

DefaultMaxDownloadSizeMb == 50
DefaultPageSize == 100
DefaultRequestTimeoutS == 10
BytesPerMb == 1048576

ListCost == 200
DeleteCost == 100
DownloadCost == 150

PlainDictConfig == [kind |-> "dict"]

ObjectConfig(secrets, attrs) == [kind |-> "obj", secrets |-> secrets, attrs |-> attrs]

\* getattr(config, name, default)
GetAttr(cfg, name, default) == Get(cfg.attrs, name, default)

SecretsValues ==
    { None,
      Dict(EmptyDict),
      Dict([wrong_key |-> Str("value")]),
      Dict([google_drive_access_token |-> Str("")]),
      Dict([google_drive_access_token |-> Str("test_token")]) }

AttrsValues ==
    { EmptyDict,
      [max_download_size_mb |-> 1],
      [max_download_size_mb |-> 25, page_size |-> 50, request_timeout_s |-> 5] }

Configs ==
    {PlainDictConfig} \cup {ObjectConfig(s, a) : s \in SecretsValues, a \in AttrsValues}

\* the try block reading the token: config.get_required_secrets() then
\* config.secrets.get(...); any exception there is the 500 exit
ReadAccessToken(cfg) ==
    IF cfg.kind # "obj"
    THEN [raised |-> TRUE,
          detail |-> "'dict' object has no attribute 'get_required_secrets'"]
    ELSE IF cfg.secrets.t # "dict"
    THEN [raised |-> TRUE,
          detail |-> "'NoneType' object has no attribute 'get'"]
    ELSE [raised |-> FALSE, token |-> Get(cfg.secrets.v, TokenKey, None)]

Cost(a) ==
    CASE a = "list"     -> ListCost
      [] a = "delete"   -> DeleteCost
      [] a = "download" -> DownloadCost

\* tokens = TokensSchema(stepAmount=..., totalCurrentAmount=...) at the top of each action
InitialTokens(a) == TokensSchema(Cost(a), Cost(a))

MissingFileIdMsg == "Missing required parameter: fileId."
MissingTokenMsg == "Missing 'google_drive_access_token' in secrets."

\* the `if not fileId` exit
MissingFileIdResponse(a) ==
    ActionResponse([error |-> MissingFileIdMsg], InitialTokens(a), MissingFileIdMsg, 400)

\* the `except Exception` exit of the secrets try block
ConfigErrorResponse(a, detail) ==
    LET msg == "Invalid configuration for secrets: " \o detail
    IN  ActionResponse([error |-> msg], InitialTokens(a), msg, 500)

\* the `if not access_token` exit
MissingTokenResponse(a) ==
    ActionResponse([error |-> MissingTokenMsg], InitialTokens(a), MissingTokenMsg, 401)

\* mutant: the token is tested against None, so an empty token passes
ResolveAuthResultNoneOnly(a, cfg) ==
    LET r == ReadAccessToken(cfg)
    IN  IF r.raised THEN ConfigErrorResponse(a, r.detail)
        ELSE IF r.token = None THEN MissingTokenResponse(a)
        ELSE NoResult

\* the outcome of the secrets block: the early-exit envelope, or NoResult to go on
ResolveAuthResult(a, cfg) ==
    LET r == ReadAccessToken(cfg)
    IN  IF r.raised THEN ConfigErrorResponse(a, r.detail)
        ELSE IF ~Truthy(r.token) THEN MissingTokenResponse(a)
        ELSE NoResult

AccessToken(cfg) == ReadAccessToken(cfg).token

-----------------------------------------------------------------------------
(* Upstream outcomes.  A response has a status, a body that either parses  *)
(* as JSON (json = TRUE, body is the parsed value) or does not, the raw    *)
(* text, the byte content and the Content-Type header (None when absent).  *)
(* A transport failure is a requests.exceptions.RequestException.          *)

Response(status, json, body, text, content, ctype) ==
    [kind |-> "response", status_code |-> status, json |-> json, body |-> body,
     text |-> text, content |-> content, content_type |-> ctype]

TransportFailure(cls, detail) == [kind |-> "transport", cls |-> cls, detail |-> detail]

Statuses == {200, 204, 300, 404, 413}

TransportFailures ==
    { TransportFailure("ConnectionError", "Connection refused"),
      TransportFailure("Timeout", "Read timed out") }

\* values of the `error` member of an error body; NoMember stands for its absence
NoMember == [t |-> "absent"]

ErrorMembers ==
    { NoMember,
      None,
      Str("invalid_token"),
      Dict(EmptyDict),
      Dict([message |-> Str("")]),
      Dict([message |-> Str("File not found")]) }

DescriptionMembers == { NoMember, Str("Token expired") }

\* a JSON object from its members, leaving out the absent ones
Object(members) ==
    Dict([k \in {m \in DOMAIN members : members[m] # NoMember} |-> members[k]])

ErrorObjects ==
    { Object([error |-> e, error_description |-> d]) :
        e \in ErrorMembers, d \in DescriptionMembers }

JsonResponse(status, body) == Response(status, TRUE, body, "<json>", <<>>, None)
TextResponse(status, text) == Response(status, FALSE, None, text, <<>>, None)

\* bodies that are not a JSON object, or no JSON at all
OddResponses(status) ==
    { JsonResponse(status, List(<<>>)),
      TextResponse(status, ""),
      TextResponse(status, "Not Found") }

\* three-tier message of a non-2xx body: error.message, error_description, None.
\* `payload` is a dict; .get on an `error` member that is no dict raises.
ErrorMessageOf(payload) ==
    LET e == Get(payload.v, "error", Dict(EmptyDict))
    IN  IF e.t # "dict" THEN [ok |-> FALSE, cls |-> "AttributeError"]
        ELSE LET m == Get(e.v, "message", None)
             IN  [ok |-> TRUE,
                  v |-> IF Truthy(m) THEN m ELSE Get(payload.v, "error_description", None)]

\* err_msg or f"HTTP {status}"
OrHttpStatus(errMsg, status) ==
    IF Truthy(errMsg) THEN errMsg.v ELSE "HTTP " \o ToString(status)

\* mutant: the message leaves out the exception class
TransportErrorResponseNoClass(prefix, e) ==
    LET msg == prefix \o e.detail
    IN  ActionResponse([error |-> e.detail], ZeroTokens, msg, 503)

\* the `except requests.exceptions.RequestException` exit
TransportErrorResponse(prefix, e) ==
    LET msg == prefix \o e.cls \o ": " \o e.detail
    IN  ActionResponse([error |-> e.detail], ZeroTokens, msg, 503)

\* try: payload = resp.json()  except ValueError: payload = {"raw": resp.text}
PayloadOrRaw(resp) ==
    IF resp.json THEN resp.body ELSE Dict([raw |-> Str(resp.text)])

BaseUrl == "https://www.googleapis.com/drive/v3/files"

AuthHeaders(cfg) ==
    [Authorization |-> "Bearer " \o AccessToken(cfg).v, Accept |-> "application/json"]


-----------------------------------------------------------------------------
(* list_documents *)

FolderIds == {"root", "F9"}

ListArgs == [folder_id : FolderIds, include_trashed : BOOLEAN]

FileEntry(i) == Dict([id |-> Str("f" \o ToString(i)), name |-> Str("doc")])

FilesMembers == {None} \cup {List([i \in 1..n |-> FileEntry(i)]) : n \in 0..MaxFiles}

FilesObjects == {Object([files |-> f]) : f \in FilesMembers}

ListResponses ==
    UNION { {JsonResponse(s, b) : b \in ErrorObjects \cup FilesObjects} \cup OddResponses(s) :
            s \in Statuses }

ListRequestOf(cfg, a) ==
    [method |-> "GET",
     url |-> BaseUrl,
     params |-> [q |-> "'" \o a.folder_id \o "' in parents and trashed="
                        \o (IF a.include_trashed THEN "true" ELSE "false"),
                 pageSize |-> GetAttr(cfg, "page_size", DefaultPageSize),
                 fields |-> "files(id,name,mimeType,webViewLink,modifiedTime)"],
     headers |-> AuthHeaders(cfg)]

\* len(files)
PyLen(v) ==
    CASE v.t \in {"list", "str"} -> [ok |-> TRUE, v |-> Len(v.v)]
      [] v.t = "dict"            -> [ok |-> TRUE, v |-> Cardinality(DOMAIN v.v)]
      [] OTHER                   -> [ok |-> FALSE, cls |-> "TypeError"]

\* the 2xx branch of list_documents
ListSuccess(payload, status) ==
    IF payload.t # "dict" THEN Escapes("AttributeError")
    ELSE LET files == Get(payload.v, "files", List(<<>>))
             n == PyLen(files)
         IN  IF ~n.ok THEN Escapes(n.cls)
             ELSE ActionResponse([files |-> files, count |-> n.v], InitialTokens("list"),
                                 ToString(n.v) \o " fichier(s) recupere(s).", status)

\* the non-2xx branch of list_documents
ListFailure(payload, status) ==
    IF payload.t = "dict"
    THEN LET m == ErrorMessageOf(payload)
         IN  IF ~m.ok THEN Escapes(m.cls)
             ELSE ActionResponse(payload.v, ZeroTokens, OrHttpStatus(m.v, status), status)
    ELSE LET msg == OrHttpStatus(None, status)
         IN  ActionResponse([error |-> msg], ZeroTokens, msg, status)

\* list_documents from the request on, given what the upstream did
ListResult(outcome) ==
    IF outcome.kind = "transport" THEN TransportErrorResponse("Request failed: ", outcome)
    ELSE LET status == outcome.status_code
             payload == PayloadOrRaw(outcome)
         IN  IF 200 <= status /\ status < 300
             THEN ListSuccess(payload, status)
             ELSE ListFailure(payload, status)

-----------------------------------------------------------------------------
(* delete_document *)

FileIds == {None, Str(""), Str("F1")}

DeleteArgs == [fileId : FileIds]

TrashedObjects == { Dict([id |-> Str("F1"), name |-> Str("x"), trashed |-> Bool(TRUE)]) }

DeleteResponses ==
    UNION { {JsonResponse(s, b) : b \in ErrorObjects \cup TrashedObjects} \cup OddResponses(s) :
            s \in Statuses }

DeleteRequestOf(cfg, a) ==
    [method |-> "PATCH",
     url |-> BaseUrl \o "/" \o a.fileId.v,
     params |-> [fields |-> "id,name,trashed"],
     headers |-> [Authorization |-> "Bearer " \o AccessToken(cfg).v,
                  Accept |-> "application/json",
                  ContentType |-> "application/json"],
     json |-> [trashed |-> TRUE],
     timeout |-> GetAttr(cfg, "request_timeout_s", DefaultRequestTimeoutS)]

\* the non-2xx branch of delete_document
DeleteFailure(payload, status) ==
    IF payload.t = "dict"
    THEN LET m == ErrorMessageOf(payload)
         IN  IF ~m.ok THEN Escapes(m.cls)
             ELSE LET msg == OrHttpStatus(m.v, status)
                  IN  ActionResponse([error |-> msg], ZeroTokens, msg, status)
    ELSE LET msg == OrHttpStatus(None, status)
         IN  ActionResponse([error |-> msg], ZeroTokens, msg, status)

\* mutant: a successful delete always reports 200
DeleteResultFixedCode(outcome) ==
    IF outcome.kind = "transport" THEN TransportErrorResponse("Request failed: ", outcome)
    ELSE LET status == outcome.status_code
             payload == PayloadOrRaw(outcome)
         IN  IF 200 <= status /\ status < 300
             THEN ActionResponse([trashed |-> TRUE, file |-> payload], InitialTokens("delete"),
                                 "File moved to trash successfully", 200)
             ELSE DeleteFailure(payload, status)

\* delete_document from the request on, given what the upstream did
DeleteResult(outcome) ==
    IF outcome.kind = "transport" THEN TransportErrorResponse("Request failed: ", outcome)
    ELSE LET status == outcome.status_code
             payload == PayloadOrRaw(outcome)
         IN  IF 200 <= status /\ status < 300
             THEN ActionResponse([trashed |-> TRUE, file |-> payload], InitialTokens("delete"),
                                 "File moved to trash successfully", status)
             ELSE DeleteFailure(payload, status)


-----------------------------------------------------------------------------
(* download_document *)

ExportMimeTypes == {None, Str(""), Str("application/pdf")}

DownloadArgs == [fileId : FileIds, export_mime_type : ExportMimeTypes]

GoogleAppsPrefix == "application/vnd.google-apps."

SizeMembers ==
    { NoMember, None, Num(0), Str("0"), Str("abc"),
      Str("1048576"), Str("1048577"), Str("52428800"), Str("52428801"),
      Num(209715200) }

NameMembers == { NoMember, Str("report.pdf") }

MimeTypeMembers ==
    { NoMember, None,
      Str("application/vnd.google-apps.document"),
      Str("application/vnd.google-apps"),
      Str("image/png") }

MetadataObjects ==
    { Object([id |-> Str("F1"), size |-> z, name |-> n, mimeType |-> m]) :
        z \in SizeMembers, n \in NameMembers, m \in MimeTypeMembers }

MetadataResponses ==
    UNION { {JsonResponse(s, b) : b \in ErrorObjects \cup MetadataObjects} \cup OddResponses(s) :
            s \in Statuses }

MetadataRequestOf(cfg, a) ==
    [method |-> "GET",
     url |-> BaseUrl \o "/" \o a.fileId.v,
     params |-> [fields |-> "id,name,size,mimeType"],
     headers |-> AuthHeaders(cfg)]

MetadataFailedMsg == "Failed to fetch file metadata"

\* the `status_code != 200` branch of the metadata fetch
MetadataFailure(resp) ==
    IF ~resp.json
    THEN ActionResponse([error |-> MetadataFailedMsg], ZeroTokens, MetadataFailedMsg,
                        resp.status_code)
    ELSE IF resp.body.t # "dict" THEN Escapes("AttributeError")
    ELSE LET e == Get(resp.body.v, "error", Dict(EmptyDict))
         IN  IF e.t # "dict" THEN Escapes("AttributeError")
             ELSE LET m == Get(e.v, "message", None)
                      msg == IF Truthy(m) THEN m.v ELSE MetadataFailedMsg
                  IN  ActionResponse([error |-> msg], ZeroTokens, msg, resp.status_code)

\* metadata = metadata_resp.json() and the three locals read from it; a record with
\* ok = TRUE and the locals, or ok = FALSE and the way the step ends.
\* `jsonErrorIsRequestException`: whether the installed requests raises its own
\* JSONDecodeError (a RequestException, requests >= 2.27) or the json module's.
ParseMetadata(resp, jsonErrorIsRequestException) ==
    IF ~resp.json
    THEN [ok |-> FALSE,
          result |-> IF jsonErrorIsRequestException
                     THEN TransportErrorResponse("Metadata request failed: ",
                              [cls |-> "JSONDecodeError", detail |-> "Expecting value"])
                     ELSE Escapes("JSONDecodeError")]
    ELSE IF resp.body.t # "dict" THEN [ok |-> FALSE, result |-> Escapes("AttributeError")]
    ELSE LET size == Get(resp.body.v, "size", None)
             n == IF Truthy(size) THEN PyInt(size) ELSE [ok |-> TRUE, v |-> 0]
         IN  IF ~n.ok THEN [ok |-> FALSE, result |-> Escapes(n.cls)]
             ELSE [ok |-> TRUE,
                   file_size_bytes |-> IF Truthy(size) THEN Num(n.v) ELSE None,
                   file_name |-> Get(resp.body.v, "name", Str("unknown")),
                   file_mime_type |-> Get(resp.body.v, "mimeType", Str(""))]

MaxSizeMb(cfg) == GetAttr(cfg, "max_download_size_mb", DefaultMaxDownloadSizeMb)

MaxSizeBytes(cfg) == MaxSizeMb(cfg) * 1024 * 1024

\* mutant: a file exactly at the ceiling is rejected too
ExceedsLimitInclusive(fileSizeBytes, maxSizeBytes) ==
    Truthy(fileSizeBytes) /\ fileSizeBytes.v >= maxSizeBytes

\* file_size_bytes and file_size_bytes > max_size_bytes
ExceedsLimit(fileSizeBytes, maxSizeBytes) ==
    Truthy(fileSizeBytes) /\ fileSizeBytes.v > maxSizeBytes

\* str(file_name) inside the f-string
PyStr(v) ==
    CASE v.t = "str"  -> v.v
      [] v.t = "none" -> "None"
      [] v.t = "int"  -> ToString(v.v)

\* the 413 exit.  The message's size in MB ({:.2f}) is left out of the text.
TooLargeResponse(cfg, l) ==
    LET msg == "File '" \o PyStr(l.file_name) \o "' size exceeds maximum allowed size ("
               \o ToString(MaxSizeMb(cfg)) \o " MB)"
    IN  ActionResponse([error |-> msg,
                        file_size_bytes |-> l.file_size_bytes.v,
                        max_size_bytes |-> MaxSizeBytes(cfg),
                        file_name |-> l.file_name],
                       ZeroTokens, msg, 413)

\* mutant: the prefix is tested without its closing dot
IsGoogleDocsFileNoDot(mimeType) == StartsWith(mimeType.v, "application/vnd.google-apps")

\* file_mime_type.startswith("application/vnd.google-apps."), for a str
IsGoogleDocsFile(mimeType) == StartsWith(mimeType.v, GoogleAppsPrefix)

DefaultExportType == "text/plain"

\* export_mime_type or "text/plain"
ExportType(exportMimeType) ==
    IF Truthy(exportMimeType) THEN exportMimeType.v ELSE DefaultExportType

ExportRequestOf(cfg, a) ==
    [method |-> "GET",
     url |-> BaseUrl \o "/" \o a.fileId.v \o "/export",
     params |-> [mimeType |-> ExportType(a.export_mime_type)],
     headers |-> AuthHeaders(cfg)]

MediaRequestOf(cfg, a) ==
    [method |-> "GET",
     url |-> BaseUrl \o "/" \o a.fileId.v,
     params |-> [alt |-> "media"],
     headers |-> AuthHeaders(cfg)]

ByteValues == {0, 77, 255}

RECURSIVE SeqsUpTo(_, _)
SeqsUpTo(S, n) ==
    IF n = 0 THEN {<<>>}
    ELSE LET shorter == SeqsUpTo(S, n - 1)
         IN  shorter \cup {Append(q, x) : q \in {r \in shorter : Len(r) = n - 1}, x \in S}

\* payloads with a full three-byte group, and with a group and a remainder
SampleContents == { <<77, 97, 110>>, <<0, 255, 77, 128>> }

Contents == SeqsUpTo(ByteValues, MaxContentLen) \cup SampleContents

ContentTypes == {None, Str("application/pdf")}

ContentResponses ==
    UNION { {Response(s, FALSE, None, "<bytes>", c, t) : c \in Contents, t \in ContentTypes}
            \cup {JsonResponse(s, b) : b \in ErrorObjects} \cup OddResponses(s) :
            s \in Statuses }

Base64Alphabet == "ABCDEFGHIJKLMNOPQRSTUVWXYZabcdefghijklmnopqrstuvwxyz0123456789+/"

Base64Char(i) == SubSeq(Base64Alphabet, i + 1, i + 1)

RECURSIVE B64Encode(_)

\* mutant: the second character of a two-byte remainder loses the second byte's high bits
B64EncodeHighBitsLost(b) ==
    IF Len(b) = 0 THEN ""
    ELSE IF Len(b) = 1
    THEN Base64Char(b[1] \div 4) \o Base64Char((b[1] % 4) * 16) \o "=="
    ELSE IF Len(b) = 2
    THEN Base64Char(b[1] \div 4) \o Base64Char((b[1] % 4) * 16)
         \o Base64Char((b[2] % 16) * 4) \o "="
    ELSE Base64Char(b[1] \div 4) \o Base64Char((b[1] % 4) * 16 + b[2] \div 16)
         \o Base64Char((b[2] % 16) * 4 + b[3] \div 64) \o Base64Char(b[3] % 64)
         \o B64Encode(SubSeq(b, 4, Len(b)))

\* base64.b64encode(content).decode("ascii")
B64Encode(b) ==
    IF Len(b) = 0 THEN ""
    ELSE IF Len(b) = 1
    THEN Base64Char(b[1] \div 4) \o Base64Char((b[1] % 4) * 16) \o "=="
    ELSE IF Len(b) = 2
    THEN Base64Char(b[1] \div 4) \o Base64Char((b[1] % 4) * 16 + b[2] \div 16)
         \o Base64Char((b[2] % 16) * 4) \o "="
    ELSE Base64Char(b[1] \div 4) \o Base64Char((b[1] % 4) * 16 + b[2] \div 16)
         \o Base64Char((b[2] % 16) * 4 + b[3] \div 64) \o Base64Char(b[3] % 64)
         \o B64Encode(SubSeq(b, 4, Len(b)))

DefaultContentType == "application/octet-stream"

\* the 2xx branch of the content fetch
DownloadSuccess(resp, a) ==
    ActionResponse([fileId |-> a.fileId.v,
                    content_base64 |-> B64Encode(resp.content),
                    size_bytes |-> Len(resp.content),
                    content_type |-> IF resp.content_type = None
                                     THEN Str(DefaultContentType) ELSE resp.content_type,
                    export_mime_type |-> a.export_mime_type],
                   InitialTokens("download"),
                   "File downloaded successfully (" \o ToString(Len(resp.content)) \o " bytes)",
                   resp.status_code)

\* the non-2xx branch of the content fetch
DownloadFailure(resp) ==
    IF ~resp.json
    THEN LET errMsg == IF resp.text # "" THEN Str(Truncate(resp.text, 200)) ELSE None
             msg == OrHttpStatus(errMsg, resp.status_code)
         IN  ActionResponse([error |-> msg], ZeroTokens, msg, resp.status_code)
    ELSE IF resp.body.t # "dict" THEN Escapes("AttributeError")
    ELSE LET m == ErrorMessageOf(resp.body)
         IN  IF ~m.ok THEN Escapes(m.cls)
             ELSE LET msg == OrHttpStatus(m.v, resp.status_code)
                  IN  ActionResponse([error |-> msg], ZeroTokens, msg, resp.status_code)

\* download_document from the content request on, given what the upstream did
ContentResult(outcome, a) ==
    IF outcome.kind = "transport" THEN TransportErrorResponse("Request failed: ", outcome)
    ELSE IF 200 <= outcome.status_code /\ outcome.status_code < 300
    THEN DownloadSuccess(outcome, a)
    ELSE DownloadFailure(outcome)


-----------------------------------------------------------------------------
(* CustomAddonConfig and GoogleDriveRoomsAddon.loadAddonConfig *)

\* required_secret_keys of the validator
RequiredSecretKeys == <<TokenKey>>

\* mutant: a key counts as present as soon as the mapping has it
MissingSecretsPresenceOnly(secrets) ==
    SelectSeq(RequiredSecretKeys, LAMBDA k : k \notin DOMAIN secrets.v)

\* missing = [k for k in required_secret_keys if not self.secrets.get(k)]
MissingSecrets(secrets) ==
    SelectSeq(RequiredSecretKeys, LAMBDA k : ~Truthy(Get(secrets.v, k, None)))

\* repr of a list of str, as the f-string formats `missing`
RECURSIVE ReprItems(_)
ReprItems(keys) ==
    IF Len(keys) = 0 THEN ""
    ELSE IF Len(keys) = 1 THEN "'" \o keys[1] \o "'"
    ELSE "'" \o keys[1] \o "', " \o ReprItems(Tail(keys))

PyReprList(keys) == "[" \o ReprItems(keys) \o "]"

\* the ValueError's text (the backquotes around the last word are left out)
MissingSecretsMsg(missing) ==
    "Missing Google Drive secrets: " \o PyReprList(missing)
        \o ". Put your OAuth access token under these keys in secrets."

\* validate_google_drive_secrets on the instance being built
ValidateGoogleDriveSecrets(cfg) ==
    LET missing == MissingSecrets(cfg.secrets)
    IN  IF Len(missing) # 0
        THEN [ok |-> FALSE, cls |-> "ValueError", message |-> MissingSecretsMsg(missing)]
        ELSE [ok |-> TRUE, value |-> cfg]

\* what loadAddonConfig is given: something that is no mapping, or keyword
\* arguments with the base fields (id, type, name, description) present, with
\* or without `secrets`, and with extra fields, which the instance keeps
NotAMapping == [kind |-> "none"]

KeywordArgs(secrets, attrs) == [kind |-> "kwargs", secrets |-> secrets, attrs |-> attrs]

SecretsArgs ==
    { NoMember,
      Dict(EmptyDict),
      Dict([wrong_key |-> Str("value")]),
      Dict([db_password |-> Str("secret"), db_user |-> Str("user")]),
      Dict([google_drive_access_token |-> Str("")]),
      Dict([google_drive_access_token |-> Str("test_token")]),
      Dict([google_drive_access_token |-> Str("test_token"), wrong_key |-> Str("value")]) }

ExtraArgs == { EmptyDict, [max_download_size_mb |-> 1] }

AddonConfigInputs ==
    {NotAMapping} \cup {KeywordArgs(s, a) : s \in SecretsArgs, a \in ExtraArgs}

\* CustomAddonConfig(**addon_config): `secrets` defaults to {}, then the validator runs
Construct(input) ==
    IF input.kind # "kwargs"
    THEN [ok |-> FALSE, cls |-> "TypeError",
          message |-> "argument after ** must be a mapping, not NoneType"]
    ELSE ValidateGoogleDriveSecrets(
             ObjectConfig(IF input.secrets = NoMember THEN Dict(EmptyDict) ELSE input.secrets,
                          input.attrs))

\* mutant: a failed load empties the held configuration
ConfigAfterLoadResetting(held, built) == IF built.ok THEN built.value ELSE PlainDictConfig

\* self.config after loadAddonConfig: assigned only when the construction returned
ConfigAfterLoad(held, built) == IF built.ok THEN built.value ELSE held

NoLoad == [kind |-> "none"]


-----------------------------------------------------------------------------
(* The calls, step by step *)

NoArgs == [none |-> TRUE]
NoLocals == [none |-> TRUE]

Init ==
    /\ pc = "idle"
    /\ action = "none"
    /\ config = PlainDictConfig
    /\ args = NoArgs
    /\ secretLookups = 0
    /\ requests = <<>>
    /\ responses = <<>>
    /\ locals = NoLocals
    /\ result = NoResult
    /\ caller = "none"
    /\ addonConfig = PlainDictConfig
    /\ load = NoLoad

\* mutant: the fileId check is skipped
FirstStepNoValidation(a) == "ResolveAuth"

\* the first thing an action does: list_documents has no required parameter
FirstStep(a) == IF a = "list" THEN "ResolveAuth" ELSE "ValidateInput"

\* where an action goes once it holds a token
AfterAuth(a) ==
    CASE a = "list"     -> "ListRequest"
      [] a = "delete"   -> "DeleteRequest"
      [] a = "download" -> "FetchMetadata"

Enter(who, a, cfg, params) ==
    /\ pc = "idle"
    /\ caller' = who
    /\ action' = a
    /\ config' = cfg
    /\ args' = params
    /\ pc' = FirstStep(a)
    /\ UNCHANGED <<secretLookups, requests, responses, locals, result, addonConfig, load>>

CallList == \E cfg \in Configs, a \in ListArgs : Enter("direct", "list", cfg, a)

CallDelete == \E cfg \in Configs, a \in DeleteArgs : Enter("direct", "delete", cfg, a)

CallDownload == \E cfg \in Configs, a \in DownloadArgs : Enter("direct", "download", cfg, a)

\* GoogleDriveRoomsAddon.list_documents: the action on self.config
AddonListDocuments == \E a \in ListArgs : Enter("addon", "list", addonConfig, a)

\* GoogleDriveRoomsAddon.delete_document; fileId defaults to None
AddonDeleteDocument == \E a \in DeleteArgs : Enter("addon", "delete", addonConfig, a)

\* GoogleDriveRoomsAddon.download_document; export_mime_type defaults to None
AddonDownloadDocument == \E a \in DownloadArgs : Enter("addon", "download", addonConfig, a)

\* GoogleDriveRoomsAddon.loadAddonConfig: build the configuration, keep it and return
\* True; on any exception log it and return False
LoadAddonConfig ==
    /\ pc = "idle"
    /\ \E input \in AddonConfigInputs :
          LET built == Construct(input)
          IN  /\ addonConfig' = ConfigAfterLoad(addonConfig, built)
              /\ load' = [kind |-> "load", input |-> input, built |-> built,
                          returned |-> built.ok]
    /\ pc' = "loaded"
    /\ UNCHANGED <<action, config, args, secretLookups, requests, responses, locals,
                   result, caller>>

\* the caller of loadAddonConfig has its answer
LoadReturn ==
    /\ pc = "loaded"
    /\ pc' = "idle"
    /\ load' = NoLoad
    /\ UNCHANGED <<action, config, args, secretLookups, requests, responses, locals,
                   result, caller, addonConfig>>

\* ends the call with `r`
Finish(r) ==
    /\ result' = r
    /\ pc' = "done"

\* if not fileId: return 400
ValidateInput ==
    /\ pc = "ValidateInput"
    /\ IF ~Truthy(args.fileId)
       THEN Finish(MissingFileIdResponse(action))
       ELSE pc' = "ResolveAuth" /\ UNCHANGED result
    /\ UNCHANGED <<action, config, args, secretLookups, requests, responses, locals,
                   caller, addonConfig, load>>

\* the secrets try block and the token check
ResolveAuth ==
    /\ pc = "ResolveAuth"
    /\ secretLookups' = secretLookups + 1
    /\ LET r == ResolveAuthResult(action, config)
       IN  IF r.kind # "none"
           THEN Finish(r)
           ELSE pc' = AfterAuth(action) /\ UNCHANGED result
    /\ UNCHANGED <<action, config, args, requests, responses, locals, caller, addonConfig, load>>

\* issues `req` and receives `outcome`
Exchange(req, outcome) ==
    /\ requests' = Append(requests, req)
    /\ responses' = Append(responses, outcome)

ListRequest ==
    /\ pc = "ListRequest"
    /\ \E o \in ListResponses \cup TransportFailures :
          /\ Exchange(ListRequestOf(config, args), o)
          /\ Finish(ListResult(o))
    /\ UNCHANGED <<action, config, args, secretLookups, locals, caller, addonConfig, load>>

DeleteRequest ==
    /\ pc = "DeleteRequest"
    /\ \E o \in DeleteResponses \cup TransportFailures :
          /\ Exchange(DeleteRequestOf(config, args), o)
          /\ Finish(DeleteResult(o))
    /\ UNCHANGED <<action, config, args, secretLookups, locals, caller, addonConfig, load>>

\* the metadata request, its status check and the reading of the metadata
FetchMetadata ==
    /\ pc = "FetchMetadata"
    /\ \E o \in MetadataResponses \cup TransportFailures, compat \in BOOLEAN :
          /\ Exchange(MetadataRequestOf(config, args), o)
          /\ IF o.kind = "transport"
             THEN Finish(TransportErrorResponse("Metadata request failed: ", o))
                  /\ UNCHANGED locals
             ELSE IF o.status_code # 200
             THEN Finish(MetadataFailure(o)) /\ UNCHANGED locals
             ELSE LET p == ParseMetadata(o, compat)
                  IN  IF ~p.ok
                      THEN Finish(p.result) /\ UNCHANGED locals
                      ELSE /\ locals' = [file_size_bytes |-> p.file_size_bytes,
                                         file_name |-> p.file_name,
                                         file_mime_type |-> p.file_mime_type]
                           /\ pc' = "CheckSizeLimit"
                           /\ UNCHANGED result
    /\ UNCHANGED <<action, config, args, secretLookups, caller, addonConfig, load>>

\* mutant: the metadata is fetched again instead of the content
ContentStepRefetching(mimeType) == "FetchMetadata"

\* which content request follows: is_google_docs_file
ContentStep(mimeType) ==
    IF IsGoogleDocsFile(mimeType) THEN "Export" ELSE "DirectDownload"

\* the size ceiling, then the branch on the MIME type
CheckSizeLimit ==
    /\ pc = "CheckSizeLimit"
    /\ IF ExceedsLimit(locals.file_size_bytes, MaxSizeBytes(config))
       THEN Finish(TooLargeResponse(config, locals))
       ELSE IF locals.file_mime_type.t # "str"
       THEN Finish(Escapes("AttributeError"))
       ELSE pc' = ContentStep(locals.file_mime_type) /\ UNCHANGED result
    /\ UNCHANGED <<action, config, args, secretLookups, requests, responses, locals,
                   caller, addonConfig, load>>

Export ==
    /\ pc = "Export"
    /\ \E o \in ContentResponses \cup TransportFailures :
          /\ Exchange(ExportRequestOf(config, args), o)
          /\ Finish(ContentResult(o, args))
    /\ UNCHANGED <<action, config, args, secretLookups, locals, caller, addonConfig, load>>

DirectDownload ==
    /\ pc = "DirectDownload"
    /\ \E o \in ContentResponses \cup TransportFailures :
          /\ Exchange(MediaRequestOf(config, args), o)
          /\ Finish(ContentResult(o, args))
    /\ UNCHANGED <<action, config, args, secretLookups, locals, caller, addonConfig, load>>

\* the caller has the result; the next call starts afresh
Return ==
    /\ pc = "done"
    /\ pc' = "idle"
    /\ action' = "none"
    /\ config' = PlainDictConfig
    /\ args' = NoArgs
    /\ secretLookups' = 0
    /\ requests' = <<>>
    /\ responses' = <<>>
    /\ locals' = NoLocals
    /\ result' = NoResult
    /\ caller' = "none"
    /\ UNCHANGED <<addonConfig, load>>

Next ==
    \/ CallList
    \/ CallDelete
    \/ CallDownload
    \/ AddonListDocuments
    \/ AddonDeleteDocument
    \/ AddonDownloadDocument
    \/ LoadAddonConfig
    \/ LoadReturn
    \/ ValidateInput
    \/ ResolveAuth
    \/ ListRequest
    \/ DeleteRequest
    \/ FetchMetadata
    \/ CheckSizeLimit
    \/ Export
    \/ DirectDownload
    \/ Return

Spec == Init /\ [][Next]_vars


-----------------------------------------------------------------------------
(* Properties *)

Finished == pc = "done"

Returned == Finished /\ result.kind = "envelope"

IsSuccessCode(code) == 200 <= code /\ code < 300

\* the upstream outcome of the call's latest request
LastOutcome == responses[Len(responses)]

EndsWith(s, suffix) ==
    /\ Len(s) >= Len(suffix)
    /\ SubSeq(s, Len(s) - Len(suffix) + 1, Len(s)) = suffix

FileIdMissing == action \in {"delete", "download"} /\ ~Truthy(args.fileId)

FileIdGiven == action = "list" \/ (action \in {"delete", "download"} /\ Truthy(args.fileId))

\* C1: every returned envelope with a code in [200,300) carries a payload without an
\* `error` key and nonzero token amounts; every other envelope carries an `error`
\* key and zero token amounts.
EnvelopeInvariant ==
    Returned =>
        IF IsSuccessCode(result.code)
        THEN /\ "error" \notin DOMAIN result.data
             /\ result.tokens.stepAmount # 0
             /\ result.tokens.totalCurrentAmount # 0
        ELSE /\ "error" \in DOMAIN result.data
             /\ result.tokens.stepAmount = 0
             /\ result.tokens.totalCurrentAmount = 0

\* C2: no exception escapes an action: every call that ends, ends with an envelope.
NoExceptionEscapes == Finished => result.kind = "envelope"

\* C3: a delete or download call with an empty or missing fileId never looks up a
\* secret and never issues a request, whatever the configuration, and ends with 400.
EmptyFileIdRejectedFirst ==
    FileIdMissing =>
        /\ secretLookups = 0
        /\ requests = <<>>
        /\ pc \in {"ValidateInput", "done"}
        /\ Finished => result.kind = "envelope" /\ result.code = 400

\* a rejected empty fileId under a configuration that holds a usable token
EmptyFileIdWitness ==
    /\ Finished
    /\ action = "download"
    /\ args.fileId = Str("")
    /\ config.kind = "obj"
    /\ config.secrets = Dict([google_drive_access_token |-> Str("test_token")])
    /\ result.code = 400

\* the configuration is no object with a secrets mapping: reading the token raises
SecretRetrievalRaises(cfg) ==
    \/ cfg.kind # "obj"
    \/ cfg.secrets.t # "dict"

\* the secrets mapping has no non-empty google_drive_access_token
LacksAccessToken(cfg) ==
    \/ SecretRetrievalRaises(cfg)
    \/ TokenKey \notin DOMAIN cfg.secrets.v
    \/ cfg.secrets.v[TokenKey] \in {None, Str("")}

\* C4: a call (with a fileId where one is required) under a configuration without a
\* non-empty access token issues no request and ends with 401, or with 500 when
\* reading the secrets raises.
NoTokenNoRequest ==
    (FileIdGiven /\ LacksAccessToken(config)) =>
        /\ requests = <<>>
        /\ Finished =>
              /\ result.kind = "envelope"
              /\ result.code = IF SecretRetrievalRaises(config) THEN 500 ELSE 401

\* a download refused for an empty token, after the secret lookup
NoTokenWitness ==
    /\ Finished
    /\ action = "download"
    /\ config.kind = "obj"
    /\ config.secrets = Dict([google_drive_access_token |-> Str("")])
    /\ secretLookups = 1
    /\ result.code = 401


\* the metadata request was answered 200 with a JSON object whose size, if any, is a number
MetadataFetched ==
    /\ action = "download"
    /\ Len(responses) >= 1
    /\ responses[1].kind = "response"
    /\ responses[1].status_code = 200
    /\ responses[1].json
    /\ responses[1].body.t = "dict"
    /\ LET size == Get(responses[1].body.v, "size", None)
       IN  size.t \in {"none", "int"} \/ (size.t = "str" /\ (size.v = "" \/ IsDecimal(size.v)))

\* the size the metadata declares, 0 when it declares none
DeclaredSize ==
    LET size == Get(responses[1].body.v, "size", None)
    IN  CASE size.t = "int" -> size.v
          [] size.t = "str" /\ size.v # "" -> DecimalValue(size.v)
          [] OTHER -> 0

\* the ceiling in bytes: max_download_size_mb, 50 when the configuration has none
ConfiguredCeiling ==
    BytesPerMb * (IF "max_download_size_mb" \in DOMAIN config.attrs
                  THEN config.attrs.max_download_size_mb
                  ELSE DefaultMaxDownloadSizeMb)

\* the call ended with 413 after the metadata request alone
RejectedAsTooLarge ==
    /\ Finished
    /\ Len(requests) = 1
    /\ result.kind = "envelope"
    /\ result.code = 413

DeclaredMimeType == Get(responses[1].body.v, "mimeType", Str("")).v

\* C6: the content request is an export (/files/{id}/export with mimeType = the caller's
\* export_mime_type, or text/plain when none was given) exactly when the metadata
\* mimeType starts with application/vnd.google-apps.; otherwise it is /files/{id} with
\* alt=media, whatever export_mime_type the caller gave.
ContentRequestFollowsMimeType ==
    /\ pc = "Export" => StartsWith(DeclaredMimeType, "application/vnd.google-apps.")
    /\ pc = "DirectDownload" => ~StartsWith(DeclaredMimeType, "application/vnd.google-apps.")
    /\ (action = "download" /\ Len(requests) = 2) =>
          IF StartsWith(DeclaredMimeType, "application/vnd.google-apps.")
          THEN /\ requests[2].url = BaseUrl \o "/" \o args.fileId.v \o "/export"
               /\ requests[2].params =
                     [mimeType |-> IF args.export_mime_type \in {None, Str("")}
                                   THEN "text/plain"
                                   ELSE args.export_mime_type.v]
          ELSE /\ requests[2].url = BaseUrl \o "/" \o args.fileId.v
               /\ requests[2].params = [alt |-> "media"]

\* a Google document exported as the caller's application/pdf
ExportWitness ==
    /\ action = "download"
    /\ Len(requests) = 2
    /\ DeclaredMimeType = "application/vnd.google-apps.document"
    /\ requests[2].params = [mimeType |-> "application/pdf"]

\* the message the three-tier rule gives for a non-2xx response
ThreeTierMessage(resp) ==
    LET isObject == resp.json /\ resp.body.t = "dict"
        err == IF isObject THEN Get(resp.body.v, "error", None) ELSE None
        nested == IF err.t = "dict" THEN Get(err.v, "message", None) ELSE None
        description == IF isObject THEN Get(resp.body.v, "error_description", None) ELSE None
    IN  IF nested \notin {None, Str("")} THEN nested.v
        ELSE IF description \notin {None, Str("")} THEN description.v
        ELSE "HTTP " \o ToString(resp.status_code)

\* C7: whichever request it answers, a non-2xx upstream response gives an envelope whose
\* code is the upstream status and whose message is the body's error.message, else its
\* error_description, else "HTTP <status>".  Stated of the envelopes that are returned.
UniformErrorMapping ==
    (Returned /\ Len(responses) >= 1 /\ LastOutcome.kind = "response"
        /\ ~IsSuccessCode(LastOutcome.status_code)) =>
        /\ result.code = LastOutcome.status_code
        /\ result.message = ThreeTierMessage(LastOutcome)

\* C8: a transport exception on any request ends the call there with code 503 and a
\* message naming the exception class and its detail; no further request follows.
TransportFailureIs503 ==
    \A i \in 1..Len(responses) :
        responses[i].kind = "transport" =>
            /\ i = Len(requests)
            /\ Finished
            /\ result.kind = "envelope"
            /\ result.code = 503
            /\ EndsWith(result.message, responses[i].cls \o ": " \o responses[i].detail)

\* the content request of a download fails in transport after the metadata request succeeded
TransportWitness ==
    /\ action = "download"
    /\ Len(responses) = 2
    /\ responses[2] = TransportFailure("Timeout", "Read timed out")
    /\ result.code = 503

\* C9: on a 2xx download the payload's export_mime_type is the export type the content
\* request carried (an export), and no caller-supplied value when the request was a
\* direct media download.
ReportedExportTypeIsUsedOne ==
    (Returned /\ action = "download" /\ Len(requests) = 2 /\ IsSuccessCode(result.code)) =>
        IF "mimeType" \in DOMAIN requests[2].params
        THEN result.data.export_mime_type = Str(requests[2].params.mimeType)
        ELSE ~Truthy(result.data.export_mime_type)

\* the fixed success cost of each action
SuccessCost ==
    CASE action = "list"     -> ListCost
      [] action = "delete"   -> DeleteCost
      [] action = "download" -> DownloadCost

\* C10: a 2xx upstream response gives an envelope with the action's fixed cost in
\* tokens.stepAmount; for list, `count` is the number of entries of the returned
\* `files`, 0 when the upstream body has no `files` key.  Stated of the envelopes that
\* are returned.
SuccessCostAndCount ==
    (Returned /\ Len(responses) >= 1 /\ LastOutcome.kind = "response"
        /\ IsSuccessCode(LastOutcome.status_code)) =>
        /\ result.tokens.stepAmount = SuccessCost
        /\ action = "list" =>
              /\ result.data.count = Len(result.data.files.v)
              /\ (LastOutcome.json /\ "files" \notin DOMAIN LastOutcome.body.v)
                    => result.data.count = 0

\* C11: a delete call whose upstream response is 2xx with a JSON body P ends with
\* data {trashed: true, file: P} and the upstream status as its code; the request sent
\* is the same trash request whatever the file's state, so an already trashed file is
\* answered like any other.
DeleteSuccessEchoesBody ==
    (/\ Finished
     /\ action = "delete"
     /\ Len(responses) = 1
     /\ LastOutcome.kind = "response"
     /\ IsSuccessCode(LastOutcome.status_code)
     /\ LastOutcome.json) =>
        /\ requests[1] = DeleteRequestOf(config, args)
        /\ result.kind = "envelope"
        /\ result.code = LastOutcome.status_code
        /\ result.data = [trashed |-> TRUE, file |-> LastOutcome.body]

\* the upstream answers 204 with the trashed file's object
DeleteSuccessWitness ==
    /\ Finished
    /\ action = "delete"
    /\ Len(responses) = 1
    /\ LastOutcome.kind = "response"
    /\ LastOutcome.status_code = 204
    /\ LastOutcome.body = Dict([id |-> Str("F1"), name |-> Str("x"), trashed |-> Bool(TRUE)])
    /\ result.data.file = LastOutcome.body

\* a loadAddonConfig call has just ended, and it was given keyword arguments
Loaded == pc = "loaded" /\ load.kind = "load"

\* the secrets the construction sees: the given mapping, or the default {}
GivenSecrets == IF load.input.secrets = NoMember THEN EmptyDict ELSE load.input.secrets.v

\* `secrets` maps google_drive_access_token to a non-empty value
HoldsAccessToken(secrets) ==
    /\ TokenKey \in DOMAIN secrets
    /\ secrets[TokenKey] \notin {None, Str("")}

\* s contains sub
Contains(s, sub) ==
    \E i \in 1..(Len(s) - Len(sub) + 1) : SubSeq(s, i, i + Len(sub) - 1) = sub

HeldConfigValid ==
    \/ addonConfig = PlainDictConfig
    \/ addonConfig.kind = "obj" /\ ~LacksAccessToken(addonConfig)

\* a call made through the addon while it still holds {} issues no request and ends
\* with 400 for an empty fileId, 500 otherwise
UnloadedAddonCallRefused ==
    (caller = "addon" /\ addonConfig = PlainDictConfig) =>
        /\ config = PlainDictConfig
        /\ requests = <<>>
        /\ Finished =>
              /\ result.kind = "envelope"
              /\ result.code = IF FileIdMissing THEN 400 ELSE 500

\* what one step may do to the held configuration: only a loadAddonConfig that
\* returns True replaces it, by the configuration just built
HeldConfigStep ==
    /\ (load'.kind = "load" /\ load.kind = "none") =>
          /\ load'.returned <=> load'.built.ok
          /\ load'.returned => addonConfig' = load'.built.value
          /\ ~load'.returned => addonConfig' = addonConfig
    /\ addonConfig' # addonConfig => (load'.kind = "load" /\ load'.returned)

\* C15: whatever loadAddonConfig calls were made, the addon's config is the initial
\* empty mapping or a CustomAddonConfig with a non-empty google_drive_access_token; a
\* failing loadAddonConfig returns False and leaves the held config as it was; and an
\* action invoked through the addon before any successful load ends with 500 (400 for
\* an empty fileId) and issues no request.
AddonConfigIntegrity ==
    /\ [](HeldConfigValid /\ UnloadedAddonCallRefused)
    /\ [][HeldConfigStep]_vars

\* a load fails while the addon holds a configuration from an earlier, successful load
FailedLoadKeepsConfigWitness ==
    /\ Loaded
    /\ ~load.returned
    /\ addonConfig.kind = "obj"

\* the value of a base64 character: its place in the alphabet
Base64Index(c) == CHOOSE i \in 0..63 : Base64Char(i) = c

\* base64.b64decode of a padded text, four characters at a time
RECURSIVE B64Decode(_)
B64Decode(s) ==
    IF Len(s) = 0 THEN <<>>
    ELSE LET c1 == Base64Index(SubSeq(s, 1, 1))
             c2 == Base64Index(SubSeq(s, 2, 2))
             q3 == SubSeq(s, 3, 3)
             q4 == SubSeq(s, 4, 4)
             b1 == c1 * 4 + c2 \div 16
         IN  IF q3 = "=" THEN <<b1>>
             ELSE LET c3 == Base64Index(q3)
                      b2 == (c2 % 16) * 16 + c3 \div 4
                  IN  IF q4 = "=" THEN <<b1, b2>>
                      ELSE <<b1, b2, (c3 % 4) * 64 + Base64Index(q4)>>
                               \o B64Decode(SubSeq(s, 5, Len(s)))

\* the content request of a download was answered 2xx
ContentFetched ==
    /\ Finished
    /\ action = "download"
    /\ Len(responses) = 2
    /\ LastOutcome.kind = "response"
    /\ IsSuccessCode(LastOutcome.status_code)

\* C13: after a download whose content request was answered 2xx, base64-decoding
\* content_base64 gives back exactly the upstream bytes, and size_bytes is their
\* number, the empty payload included.
Base64RoundTrip ==
    ContentFetched =>
        /\ result.kind = "envelope"
        /\ B64Decode(result.data.content_base64) = LastOutcome.content
        /\ result.data.size_bytes = Len(LastOutcome.content)

\* the bytes of "Man" come back as "TWFu"
Base64RoundTripWitness ==
    /\ ContentFetched
    /\ LastOutcome.content = <<77, 97, 110>>
    /\ result.data.content_base64 = "TWFu"
    /\ result.data.size_bytes = 3

\* the moves of the state machine Start -> ValidateInput -> ResolveAuth ->
\* FetchMetadata -> CheckSizeLimit -> {Export | DirectDownload} -> Done, each step
\* with its exit to Done
LinearMoves ==
    { <<"idle", "ValidateInput">>,
      <<"ValidateInput", "ResolveAuth">>,   <<"ValidateInput", "done">>,
      <<"ResolveAuth", "FetchMetadata">>,   <<"ResolveAuth", "done">>,
      <<"FetchMetadata", "CheckSizeLimit">>, <<"FetchMetadata", "done">>,
      <<"CheckSizeLimit", "Export">>,       <<"CheckSizeLimit", "DirectDownload">>,
      <<"CheckSizeLimit", "done">>,
      <<"Export", "done">>,                 <<"DirectDownload", "done">> }

RequestSteps == {"ListRequest", "DeleteRequest", "FetchMetadata", "Export", "DirectDownload"}

\* one step of a call that is under way after it
CallStep ==
    /\ action' = "download" => <<pc, pc'>> \in LinearMoves
    /\ requests' = requests \/ (pc \in RequestSteps /\ Len(requests') = Len(requests) + 1)
    /\ Len(requests') <= IF action' = "download" THEN 2 ELSE 1
    /\ (action' = "download" /\ Len(requests') = 2 /\ Len(requests) = 1) =>
          /\ MetadataFetched
          /\ ~(DeclaredSize # 0 /\ DeclaredSize > ConfiguredCeiling)
          /\ pc \in {"Export", "DirectDownload"}
          /\ result = NoResult
    /\ result' # result => pc' = "done"

\* C14: a download call moves along Start -> ValidateInput -> ResolveAuth ->
\* FetchMetadata -> CheckSizeLimit -> {Export | DirectDownload} -> Done and never
\* back: it issues at most two requests, the content request only after the metadata
\* request was answered 200 and the size check passed, a result given at a step ends
\* the call there, and a call that has ended takes no further step; list and delete
\* calls issue at most one request.
LinearNoRetry ==
    [][/\ action' # "none" => CallStep
       /\ pc = "done" => (pc' = "idle" /\ action' = "none")]_vars

\* a download has gone all the way through the direct download to its end
FullProgressionWitness ==
    /\ Finished
    /\ action = "download"
    /\ Len(requests) = 2
    /\ requests[2] = MediaRequestOf(config, args)
    /\ result.kind = "envelope"
    /\ result.code = 200


====
